---- MODULE Spec2Model ----
(***************************************************************************)
(* Model of src/app.py: ExcelTransformer (detect_data_type, _is_date,      *)
(* _is_numeric, transform_to_metadata, create_excel_download).             *)
(*                                                                         *)
(* Strings are sequences of one-character strings, so that strip, lower,   *)
(* replace, float() and strptime() are computed and not assumed.  The      *)
(* module is ASCII only: a Cyrillic letter of the source is written as a   *)
(* token "cyr_x" and a Cyrillic literal as its transliteration, with the   *)
(* original named in the comment beside it.                                *)
(***************************************************************************)
EXTENDS Integers, Sequences, FiniteSets, TLC

VARIABLES
    report_id,          \* the report_number argument the transformer was made with
    report_number,      \* self.report_number (app.py:20)
    dateutil_lenient,   \* what the installed pandas/dateutil does with a string
                        \* it is not bound to accept or reject (app.py:94)
    values,             \* the column sample handed to detect_data_type
    data_type,          \* what detect_data_type returned for it ("" before the call)
    df,                 \* the loaded dataset: a sequence of [name, cells]
    report_type,        \* the report type of the last transform_to_metadata call
    metadata_df,        \* the DataFrame transform_to_metadata returned
    error,              \* the exception transform_to_metadata raised, "" when none
    export_arg,         \* the DataFrame handed to create_excel_download
    ws,                 \* the worksheet create_excel_download filled
    excel_data,         \* the saved workbook it returned: the sheet's stored cells
    earlier_call,       \* one earlier transform_to_metadata call: inputs and result
    repeat_call         \* metadata_df comes from a call made after the one in earlier_call

vars == <<report_id, report_number, dateutil_lenient, values, data_type, df,
          report_type, metadata_df, error, export_arg, ws, excel_data, earlier_call,
          repeat_call>>

(***************************************************************************)
(* Bounds of the model.                                                    *)
(***************************************************************************)
\* longest column sample the classifier is run on
MaxLen == 10
\* most columns of a dataset
MaxCols == 2

(***************************************************************************)
(* Characters and strings.                                                 *)
(***************************************************************************)
Range(s) == {s[i] : i \in 1..Len(s)}

Digits == {"0", "1", "2", "3", "4", "5", "6", "7", "8", "9"}

DigitVal(c) ==
    CASE c = "0" -> 0 [] c = "1" -> 1 [] c = "2" -> 2 [] c = "3" -> 3
      [] c = "4" -> 4 [] c = "5" -> 5 [] c = "6" -> 6 [] c = "7" -> 7
      [] c = "8" -> 8 [] c = "9" -> 9

UpperChars == <<"A", "B", "C", "D", "E", "F", "I", "N", "O", "S", "T", "Y">>
LowerChars == <<"a", "b", "c", "d", "e", "f", "i", "n", "o", "s", "t", "y">>

\* str.lower() on one character
LowerChar(c) ==
    IF \E i \in 1..Len(UpperChars) : UpperChars[i] = c
    THEN LowerChars[CHOOSE i \in 1..Len(UpperChars) : UpperChars[i] = c]
    ELSE c

\* str.lower()
Lower(s) == [i \in 1..Len(s) |-> LowerChar(s[i])]

RECURSIVE LStrip(_)
LStrip(s) == IF s # <<>> /\ Head(s) = " " THEN LStrip(Tail(s)) ELSE s

RECURSIVE RStrip(_)
RStrip(s) ==
    IF s # <<>> /\ s[Len(s)] = " " THEN RStrip(SubSeq(s, 1, Len(s) - 1)) ELSE s

\* str.strip()
Strip(s) == RStrip(LStrip(s))

\* str.replace(old, new) for a one-character old and a new of at most one character
RECURSIVE Replace(_, _, _)
Replace(s, old, new) ==
    IF s = <<>> THEN <<>>
    ELSE (IF Head(s) = old THEN new ELSE <<Head(s)>>) \o Replace(Tail(s), old, new)

IsDigits(s) == Len(s) >= 1 /\ \A i \in 1..Len(s) : s[i] \in Digits

RECURSIVE ToNat(_)
ToNat(s) == IF s = <<>> THEN 0 ELSE 10 * ToNat(SubSeq(s, 1, Len(s) - 1)) + DigitVal(s[Len(s)])

\* str.split(sep) for a one-character separator
RECURSIVE Split(_, _)
Split(s, sep) ==
    IF \E i \in 1..Len(s) : s[i] = sep
    THEN LET i == CHOOSE k \in 1..Len(s) : s[k] = sep /\ \A j \in 1..(k - 1) : s[j] # sep
         IN  <<SubSeq(s, 1, i - 1)>> \o Split(SubSeq(s, i + 1, Len(s)), sep)
    ELSE <<s>>

(***************************************************************************)
(* float(): the literals Python's float() accepts, without the digit       *)
(* separators "_" (no string of the model holds one).                      *)
(***************************************************************************)
\* digits with at most one ".", at least one digit in all
IsMantissa(s) ==
    \/ IsDigits(s)
    \/ \E i \in 1..Len(s) :
          /\ s[i] = "."
          /\ Len(s) >= 2
          /\ \A j \in (1..Len(s)) \ {i} : s[j] \in Digits

Unsigned(s) == IF s # <<>> /\ Head(s) \in {"+", "-"} THEN Tail(s) ELSE s

IsDecimal(s) ==
    \/ IsMantissa(s)
    \/ \E i \in 1..Len(s) :
          /\ s[i] \in {"e", "E"}
          /\ IsMantissa(SubSeq(s, 1, i - 1))
          /\ IsDigits(Unsigned(SubSeq(s, i + 1, Len(s))))

FloatWords == {<<"i", "n", "f">>, <<"n", "a", "n">>,
               <<"i", "n", "f", "i", "n", "i", "t", "y">>}

\* float(s) does not raise ValueError
PyFloatOK(s) ==
    LET u == Unsigned(Strip(s))
    IN  Lower(u) \in FloatWords \/ IsDecimal(u)

(***************************************************************************)
(* datetime.strptime(): the ten formats of _is_date.  A format is its      *)
(* three directives and its separator.                                     *)
(***************************************************************************)
date_formats == <<
    [fields |-> <<"d", "m", "Y">>, sep |-> "."],
    [fields |-> <<"d", "m", "Y">>, sep |-> "/"],
    [fields |-> <<"Y", "m", "d">>, sep |-> "-"],
    [fields |-> <<"d", "m", "Y">>, sep |-> "-"],
    [fields |-> <<"d", "m", "y">>, sep |-> "."],
    [fields |-> <<"d", "m", "y">>, sep |-> "/"],
    [fields |-> <<"y", "m", "d">>, sep |-> "-"],
    [fields |-> <<"d", "m", "y">>, sep |-> "-"],
    [fields |-> <<"Y", "m", "d">>, sep |-> "."],
    [fields |-> <<"Y", "m", "d">>, sep |-> "/"] >>

\* the text a directive matches: %d 1..31 in one or two digits (or a space and
\* a digit), %m 1..12 in one or two digits, %Y four digits, %y two digits
DirectiveMatches(d, part) ==
    CASE d = "d" -> \/ IsDigits(part) /\ Len(part) <= 2 /\ ToNat(part) \in 1..31
                    \/ Len(part) = 2 /\ part[1] = " " /\ part[2] \in Digits \ {"0"}
      [] d = "m" -> IsDigits(part) /\ Len(part) <= 2 /\ ToNat(part) \in 1..12
      [] d = "Y" -> IsDigits(part) /\ Len(part) = 4
      [] d = "y" -> IsDigits(part) /\ Len(part) = 2

\* the number a matched directive stands for (%y: 69..99 are 19xx, 0..68 20xx)
DirectiveValue(d, part) ==
    CASE d = "d" -> IF part[1] = " " THEN DigitVal(part[2]) ELSE ToNat(part)
      [] d = "m" -> ToNat(part)
      [] d = "Y" -> ToNat(part)
      [] d = "y" -> IF ToNat(part) < 69 THEN 2000 + ToNat(part) ELSE 1900 + ToNat(part)

IsLeap(y) == y % 4 = 0 /\ (y % 100 # 0 \/ y % 400 = 0)

DaysInMonth(y, m) ==
    IF m = 2 THEN (IF IsLeap(y) THEN 29 ELSE 28)
    ELSE IF m \in {4, 6, 9, 11} THEN 30 ELSE 31

\* the part of s a directive of fmt is matched against; <<>> when s has not three parts
PartOf(s, fmt, d) ==
    LET parts == Split(s, fmt.sep)
        i     == CHOOSE k \in 1..3 : fmt.fields[k] \in d
    IN  IF Len(parts) = 3 THEN parts[i] ELSE <<>>

\* datetime.strptime(s, fmt) does not raise ValueError
StrptimeOK(s, fmt) ==
    LET parts == Split(s, fmt.sep)
        yy    == DirectiveValue(fmt.fields[CHOOSE k \in 1..3 : fmt.fields[k] \in {"Y", "y"}],
                                PartOf(s, fmt, {"Y", "y"}))
        mm    == DirectiveValue("m", PartOf(s, fmt, {"m"}))
        dd    == DirectiveValue("d", PartOf(s, fmt, {"d"}))
    IN  /\ Len(parts) = 3
        /\ \A k \in 1..3 : DirectiveMatches(fmt.fields[k], parts[k])
        /\ yy >= 1
        /\ dd <= DaysInMonth(yy, mm)

(***************************************************************************)
(* pd.to_datetime(str_val, errors='raise'), the fallback of _is_date.      *)
(* pandas is not part of the repository; the model fixes its answer where  *)
(* pandas documents it and leaves it to dateutil_lenient elsewhere:        *)
(*   - the empty string is NaT, returned without an exception;             *)
(*   - a four-digit year inside the Timestamp range is that year's 1 Jan;  *)
(*   - a plain number below 1000 that does not start with "0" is refused   *)
(*     ("not likely a datetime");                                          *)
(*   - a word dateutil has no token for is refused.                        *)
(***************************************************************************)
NonDateWords == {<<"y", "e", "s">>, <<"n", "o">>, <<"y">>, <<"n">>,
                 <<"t", "r", "u", "e">>, <<"f", "a", "l", "s", "e">>,
                 <<"o", "f", "f">>, <<"a", "b", "c">>}

IsTimestampYear(s) == IsDigits(s) /\ Len(s) = 4 /\ ToNat(s) \in 1678..2261

IsSmallNumber(s) ==
    /\ IsMantissa(s)
    /\ Head(s) # "0"
    /\ LET int == Split(s, ".")[1] IN int = <<>> \/ (Len(int) <= 3)

PdToDatetimeOK(s, lenient) ==
    IF s = <<>> \/ IsTimestampYear(s) THEN TRUE
    ELSE IF IsSmallNumber(s) \/ Lower(s) \in NonDateWords THEN FALSE
    ELSE lenient

(***************************************************************************)
(* Cells.  A cell is [na, str]: whether pandas holds it as missing         *)
(* (NaN/None), and str(value).                                             *)
(***************************************************************************)
NaN == [na |-> TRUE, str |-> <<"n", "a", "n">>]
Str(s) == [na |-> FALSE, str |-> s]

\* the cells a sample is drawn from, in the order samples are enumerated in
CellList == <<
    NaN,
    Str(<<" ", "Y", "e", "s">>),
    Str(<<"n", "o">>),
    Str(<<"y">>),
    Str(<<"1">>),
    Str(<<"1", "5", ".", "0", "1", ".", "2", "0", "2", "4">>),
    Str(<<"2", "0", "2", "4">>),
    Str(<<"1", " ", "3", ",", "5">>),
    Str(<<"a", "b", "c">>),
    Str(<<>>) >>

Cells == Range(CellList)

CellRank(c) == CHOOSE i \in 1..Len(CellList) : CellList[i] = c

(***************************************************************************)
(* ExcelTransformer._is_date, _is_numeric, detect_data_type.               *)
(***************************************************************************)
TEXT == "tekst"      \* 'текст'
NUMBER == "chislo"   \* 'число'
DATE == "data"       \* 'дата'
FLAG == "flag"       \* 'флаг'

\* pd.isna(value)
IsNa(value) == value.na

IsDate(value, lenient) ==
    IF IsNa(value) THEN FALSE
    ELSE LET str_val == Strip(value.str)
         IN  \/ \E k \in 1..Len(date_formats) : StrptimeOK(str_val, date_formats[k])
             \/ PdToDatetimeOK(str_val, lenient)

IsNumeric(value) ==
    IF IsNa(value) THEN FALSE
    ELSE PyFloatOK(Replace(Replace(value.str, ",", <<".">>), " ", <<>>))

bool_indicators == {
    <<"cyr_d", "cyr_a">>,                               \* 'да'
    <<"cyr_n", "cyr_e", "cyr_t">>,                      \* 'нет'
    <<"t", "r", "u", "e">>, <<"f", "a", "l", "s", "e">>,
    <<"1">>, <<"0">>,
    <<"y", "e", "s">>, <<"n", "o">>, <<"y">>, <<"n">>,
    <<"cyr_v", "cyr_k", "cyr_l">>,                      \* 'вкл'
    <<"cyr_v", "cyr_y", "cyr_k", "cyr_l">>,             \* 'выкл'
    <<"o", "n">>, <<"o", "f", "f">>,
    <<"cyr_a", "cyr_k", "cyr_t", "cyr_i", "cyr_v", "cyr_e", "cyr_n">>,   \* 'активен'
    <<"cyr_n", "cyr_e", "cyr_a", "cyr_k", "cyr_t", "cyr_i", "cyr_v", "cyr_e", "cyr_n">> }  \* 'неактивен'

\* _is_date, _is_numeric and the normalised string of each cell of the model,
\* computed once
is_date == [c \in Cells |-> [lenient \in BOOLEAN |-> IsDate(c, lenient)]]
is_numeric == [c \in Cells |-> IsNumeric(c)]
str_values == [c \in Cells |-> Lower(Strip(c.str))]

\* values.dropna()
DropNa(vals) == SelectSeq(vals, LAMBDA v : ~IsNa(v))

\* set(clean_values.astype(str).str.strip().str.lower().unique())
UniqueValues(clean_values) ==
    {str_values[clean_values[i]] : i \in 1..Len(clean_values)}

MaxFlagValues == 3

\* a flag rule that asks for both values of a pair
IsFlagColumnPair(unique_values) ==
    unique_values \subseteq bool_indicators /\ Cardinality(unique_values) \in 2..MaxFlagValues

IsFlagColumn(unique_values) ==
    unique_values \subseteq bool_indicators /\ Cardinality(unique_values) <= MaxFlagValues

DateCount(clean_values, lenient) ==
    Cardinality({i \in 1..Len(clean_values) : is_date[clean_values[i]][lenient]})

NumericCount(clean_values) ==
    Cardinality({i \in 1..Len(clean_values) : is_numeric[clean_values[i]]})

\* count / total > 0.7 and count / total > 0.8: the quotient of two ints below
\* 2^53 is the double nearest the exact ratio, and 0.7 and 0.8 are the doubles
\* nearest 7/10 and 4/5, so for the totals of the model the comparison of doubles
\* is the comparison of the exact ratios
DateThresholdNum == 7
DateThresholdDen == 10
NumberThresholdNum == 8
NumberThresholdDen == 10

\* the thresholds compared with >= instead of >
ReachesDateThreshold(count, total) ==
    count * DateThresholdDen >= DateThresholdNum * total

ReachesNumberThreshold(count, total) ==
    count * NumberThresholdDen >= NumberThresholdNum * total

ExceedsDateThreshold(count, total) ==
    count * DateThresholdDen > DateThresholdNum * total

ExceedsNumberThreshold(count, total) ==
    count * NumberThresholdDen > NumberThresholdNum * total

detect_data_type(vals, lenient) ==
    LET clean_values == DropNa(vals)
    IN  IF Len(clean_values) = 0 THEN TEXT
        ELSE IF IsFlagColumn(UniqueValues(clean_values)) THEN FLAG
        ELSE IF ExceedsDateThreshold(DateCount(clean_values, lenient), Len(clean_values))
             THEN DATE
        ELSE IF ExceedsNumberThreshold(NumericCount(clean_values), Len(clean_values))
             THEN NUMBER
        ELSE TEXT



\* an empty DataFrame: no columns, no rows
NoTable == [columns |-> <<>>, rows |-> <<>>]

(***************************************************************************)
(* Values of metadata fields and worksheet cells: a Python str, a Python   *)
(* int, or None.                                                           *)
(***************************************************************************)
\* t names the type; s is the text of a str and n the number of an int
S(v) == [t |-> "str", s |-> v, n |-> 0]
I(n) == [t |-> "int", s |-> "", n |-> n]
None == [t |-> "None", s |-> "", n |-> 0]

DigitStr(d) ==
    CASE d = 0 -> "0" [] d = 1 -> "1" [] d = 2 -> "2" [] d = 3 -> "3" [] d = 4 -> "4"
      [] d = 5 -> "5" [] d = 6 -> "6" [] d = 7 -> "7" [] d = 8 -> "8" [] d = 9 -> "9"

\* str(n) for an int n >= 0
RECURSIVE PyStr(_)
PyStr(n) == IF n < 10 THEN DigitStr(n) ELSE PyStr(n \div 10) \o DigitStr(n % 10)

(***************************************************************************)
(* ExcelTransformer.__init__                                               *)
(***************************************************************************)
DefaultReportNumber == "R001"

\* report_number or "R001"
InitReportNumber(arg) == IF arg = "" THEN DefaultReportNumber ELSE arg

(***************************************************************************)
(* ExcelTransformer.transform_to_metadata                                  *)
(***************************************************************************)
MANUAL == "Ruchnoj"                   \* "Ручной"
SEMI_AUTOMATIC == "Poluavtomaticheskij"   \* "Полуавтоматический"
AUTOMATIC == "Avtomaticheskij"        \* "Автоматический"
ILA == "ILA"                          \* "ИЛА"

report_types == <<MANUAL, SEMI_AUTOMATIC, AUTOMATIC, ILA>>

\* the dict literal with 'name' and 'description' written in the other order
record_keys_drifted == <<
    "ReportCode_info", "Noreportfield_info", "description", "name", "TechAsIs",
    "BussAlgorythm", "TechAlgorythm", "algorithms_change_info", "dbobjectlink",
    "base_type_info", "related_it_system_info", "reportfields_codes",
    "reportfields_names", "reportfields_parent_term", "reportfields_domain",
    "required_attribute_info", "base_type_report_field", "base_calc_ref_ind_info",
    "codeTable_info", "example", "isToDelete_info" >>

\* the keys of the metadata_record dict literal, in the order it lists them
record_keys == <<
    "ReportCode_info", "Noreportfield_info", "name", "description", "TechAsIs",
    "BussAlgorythm", "TechAlgorythm", "algorithms_change_info", "dbobjectlink",
    "base_type_info", "related_it_system_info", "reportfields_codes",
    "reportfields_names", "reportfields_parent_term", "reportfields_domain",
    "required_attribute_info", "base_type_report_field", "base_calc_ref_ind_info",
    "codeTable_info", "example", "isToDelete_info" >>

\* "Ручной ввод" / ""
tech_algorithm_to_be(rt) ==
    IF rt \in {MANUAL, SEMI_AUTOMATIC} THEN "Ruchnoj vvod" ELSE ""

\* "Ручное заполнение" / "База данных"
data_source_type(rt) ==
    IF rt \in {MANUAL, SEMI_AUTOMATIC} THEN "Ruchnoe zapolnenie" ELSE "Baza dannyh"

\* a system link set for every report that is not filled by hand
system_connection_not_manual(rt) ==
    IF rt \in {MANUAL, SEMI_AUTOMATIC} THEN "" ELSE "ILA One"

\* "ИЛА One" / ""
system_connection(rt) == IF rt = ILA THEN "ILA One" ELSE ""

metadata_record(idx, column, type, rt) ==
    [k \in Range(record_keys) |->
        CASE k = "ReportCode_info" -> S("")
          [] k = "Noreportfield_info" -> I(idx)
          [] k = "name" -> S(column)
          [] k = "TechAlgorythm" -> S(tech_algorithm_to_be(rt))
          [] k = "algorithms_change_info" -> S("net")          \* 'нет'
          [] k = "base_type_info" -> S(data_source_type(rt))
          [] k = "related_it_system_info" -> S(system_connection(rt))
          [] k = "required_attribute_info" -> S("da")          \* 'да'
          [] k = "base_type_report_field" -> S(type)
          [] k = "base_calc_ref_ind_info" -> S("Bazovyj")      \* 'Базовый'
          [] OTHER -> S("")]

\* a metadata_list kept on the transformer and never emptied
leftover_metadata_list == metadata_df.rows

\* metadata_list = []
new_metadata_list == <<>>

\* the loop over enumerate(df.columns, 1): metadata_list after the first n columns
RECURSIVE metadata_list(_, _, _, _)
metadata_list(frame, n, rt, lenient) ==
    IF n = 0 THEN new_metadata_list
    ELSE Append(metadata_list(frame, n - 1, rt, lenient),
                metadata_record(n, frame[n].name,
                                detect_data_type(frame[n].cells, lenient), rt))

\* pd.DataFrame(list of dicts): the columns are the keys of the dicts in their
\* order, and an empty list makes a frame with no columns
DataFrame(list) ==
    [columns |-> IF list = <<>> THEN <<>> ELSE record_keys, rows |-> list]

\* f"{self.report_number}_{x}"
report_code(rn, x) == rn \o "_" \o PyStr(x)

\* metadata_df['ReportCode_info'] = metadata_df['Noreportfield_info'].apply(...):
\* reading a column the frame does not have raises KeyError, assigning to one it
\* has keeps its place
transform_to_metadata(frame, rt, rn, lenient) ==
    LET made == DataFrame(metadata_list(frame, Len(frame), rt, lenient))
    IN  IF "Noreportfield_info" \notin Range(made.columns)
        THEN [table |-> NoTable, error |-> "KeyError"]
        ELSE [table |-> [columns |-> made.columns,
                         rows |-> [i \in 1..Len(made.rows) |->
                                      [made.rows[i] EXCEPT !["ReportCode_info"] =
                                          S(report_code(rn, made.rows[i]["Noreportfield_info"].n))]]],
              error |-> ""]

(***************************************************************************)
(* ExcelTransformer.create_excel_download                                  *)
(***************************************************************************)
technical_headers == <<
    "ReportCode_info", "Noreportfield_info", "name", "description", "TechAsIs",
    "BussAlgorythm", "TechAlgorythm", "algorithms_change_info", "dbobjectlink",
    "base_type_info", "related_it_system_info", "reportfields_codes",
    "reportfields_names", "reportfields_parent_term", "reportfields_domain",
    "required_attribute_info", "base_type_report_field", "base_calc_ref_ind_info",
    "codeTable_info", "example", "isToDelete_info" >>

\* the 21 Russian labels of row 2, transliterated
user_headers == <<
    "Kod atributa otcheta",
    "No atributa otcheta",
    "Naimenovanie atributa",
    "Opisanie atributa",
    "Tehnicheskij algoritm AS IS",
    "Biznes-algoritm AS IS",
    "Tehnicheskij algoritm TO BE",
    "Algoritm izmenen",
    "Fizicheskie atributy",
    "Tip istochnika dannyh",
    "Svjaz s informacionnoj sistemoj",
    "Kod termina/terminov",
    "Naimenovanie termina/terminov",
    "Naimenovanie roditelskoj sushhnosti termina/terminov",
    "Domen termina/terminov",
    "Objazatelnyj atribut dlja zapolnenija",
    "Bazovyj tip atributa (Tekst, Chislo, Data, Flag)",
    "Priznak atributa (Bazovyj, Raschetnyj, Spravochnyj)",
    "Naimenovanie spravochnika",
    "Primechanie",
    "Pomechen k udaleniju" >>

\* len(str(value)); bool(value) is False for "" and 0
StrLen(cell) == IF cell.t = "int" THEN Len(PyStr(cell.n)) ELSE Len(cell.s)
Truthy(cell) == IF cell.t = "int" THEN cell.n # 0 ELSE cell.t = "str" /\ cell.s # ""

Max(a, b) == IF a >= b THEN a ELSE b
Min(a, b) == IF a <= b THEN a ELSE b

RECURSIVE MaxOver(_, _)
MaxOver(f, n) == IF n = 0 THEN 0 ELSE Max(MaxOver(f, n - 1), f[n])

\* the values of one row in the frame's own column order: what enumerate(row, 1)
\* walks over
RowValues(table, r) == [j \in 1..Len(table.columns) |-> table.rows[r][table.columns[j]]]

\* the cells of the sheet: rows 1 and 2 are the headers, row r + 2 holds the
\* values of the frame's row r in the positions they have in the frame
SheetCells(table) ==
    <<[j \in 1..Len(technical_headers) |-> S(technical_headers[j])],
      [j \in 1..Len(user_headers) |-> S(user_headers[j])]>>
    \o [r \in 1..Len(table.rows) |-> RowValues(table, r)]

\* ws.cell(row, column).value: None for a cell nothing was written to
CellValue(cells, r, c) ==
    IF r \in 1..Len(cells) /\ c \in 1..Len(cells[r]) THEN cells[r][c] ELSE None

\* min(max_length + 2, 50) for each of the len(technical_headers) columns
ColumnWidths(table, cells) ==
    [c \in 1..Len(technical_headers) |->
        LET heads == Max(Len(technical_headers[c]), Len(user_headers[c]))
            data  == [r \in 1..Len(table.rows) |->
                         LET v == CellValue(cells, r + 2, c)
                         IN  IF Truthy(v) THEN StrLen(v) ELSE 0]
        IN  Min(Max(heads, MaxOver(data, Len(table.rows))) + 2, 50)]

\* the worksheet as create_excel_download leaves it
Worksheet(table) ==
    LET cells == SheetCells(table)
    IN  [title |-> "Atribut otcheta",        \* "Атрибут отчета"
         cells |-> cells,
         hidden_rows |-> {1},
         bold_rows |-> {2},
         freeze_panes |-> <<3, 1>>,
         widths |-> ColumnWidths(table, cells)]

\* wb.save: openpyxl stores a cell whose value is None or "" as an empty cell
StoredCell(v) == IF v.t = "str" /\ v.s = "" THEN None ELSE v

\* the stored cells of the saved workbook
Saved(sheet) ==
    [r \in 1..Len(sheet.cells) |->
        [c \in 1..Len(sheet.cells[r]) |-> StoredCell(sheet.cells[r][c])]]

(***************************************************************************)
(* Datasets.  Column i of a dataset is named ColumnNames[i]; its cells are *)
(* one of the samples.                                                     *)
(***************************************************************************)
ColumnNames == <<"ID", "Name", "Active", "JoinDate">>

\* a yes/no column with a gap, and a column of decimal-comma numbers with a gap
Samples == {
    <<Str(<<" ", "Y", "e", "s">>), NaN, Str(<<"n", "o">>)>>,
    <<Str(<<"1", " ", "3", ",", "5">>), NaN>> }

Datasets ==
    UNION {{[i \in 1..n |-> [name |-> ColumnNames[i], cells |-> f[i]]] :
                f \in [1..n -> Samples]} : n \in 0..MaxCols}

ReportIds == {"", "R7"}

\* transform_to_metadata on every input of the model, computed once
transformed ==
    [d \in Datasets |-> [rt \in Range(report_types) |->
        [rn \in {InitReportNumber(arg) : arg \in ReportIds} |-> [lenient \in BOOLEAN |->
            transform_to_metadata(d, rt, rn, lenient)]]]]

(***************************************************************************)
(* State machine.  Init is a transformer made without a report number      *)
(* (None, which `or` treats as it treats ""), no dataset loaded, nothing   *)
(* classified, built or exported.                                          *)
(***************************************************************************)
NoCall == [called |-> FALSE]
NoSheet == [title |-> "", cells |-> <<>>, hidden_rows |-> {}, bold_rows |-> {},
            freeze_panes |-> <<1, 1>>, widths |-> <<>>]

classify_vars == <<values, data_type>>
transformer_vars == <<report_id, report_number>>
build_vars == <<report_type, metadata_df, error, earlier_call, repeat_call>>
export_vars == <<export_arg, ws, excel_data>>

Init ==
    /\ report_id = ""
    /\ report_number = InitReportNumber("")
    /\ dateutil_lenient \in BOOLEAN
    /\ values = <<>>
    /\ data_type = ""
    /\ df = <<>>
    /\ report_type = ""
    /\ metadata_df = NoTable
    /\ error = ""
    /\ export_arg = NoTable
    /\ ws = NoSheet
    /\ excel_data = <<>>
    /\ earlier_call = NoCall
    /\ repeat_call = FALSE

(***************************************************************************)
(* The classifier on its own: a caller builds a column sample cell by cell *)
(* and hands it to detect_data_type.  Samples are enumerated with equal    *)
(* cells adjacent, in the order of CellList.                               *)
(***************************************************************************)
AppendCell(c) ==
    /\ data_type = ""
    /\ Len(values) < MaxLen
    /\ IF values = <<>> THEN TRUE ELSE CellRank(values[Len(values)]) <= CellRank(c)
    /\ values' = Append(values, c)
    /\ UNCHANGED <<data_type, dateutil_lenient, df, transformer_vars, build_vars,
                   export_vars>>

DetectDataType ==
    /\ data_type = ""
    /\ data_type' = detect_data_type(values, dateutil_lenient)
    /\ UNCHANGED <<values, dateutil_lenient, df, transformer_vars, build_vars,
                   export_vars>>

NewSample ==
    /\ data_type # ""
    /\ values' = <<>>
    /\ data_type' = ""
    /\ UNCHANGED <<dateutil_lenient, df, transformer_vars, build_vars, export_vars>>

NextClassify ==
    \/ \E c \in Cells : AppendCell(c)
    \/ DetectDataType
    \/ NewSample

SpecClassify == Init /\ [][NextClassify]_vars

(***************************************************************************)
(* The transformer as main() drives it: a transformer is made for a report *)
(* number, a dataset is loaded, transform_to_metadata is called for a      *)
(* report type and its frame is handed to create_excel_download.  A new    *)
(* transformer or dataset starts a new request: the results of the one     *)
(* before are dropped.                                                     *)
(***************************************************************************)
NoResults ==
    /\ report_type' = ""
    /\ metadata_df' = NoTable
    /\ error' = ""
    /\ export_arg' = NoTable
    /\ ws' = NoSheet
    /\ excel_data' = <<>>
    /\ repeat_call' = FALSE

NewTransformer(arg) ==
    /\ report_id' = arg
    /\ report_number' = InitReportNumber(arg)
    /\ NoResults
    /\ UNCHANGED <<classify_vars, dateutil_lenient, df, earlier_call>>

LoadDataset(d) ==
    /\ df' = d
    /\ NoResults
    /\ UNCHANGED <<classify_vars, dateutil_lenient, transformer_vars, earlier_call>>

\* the call and what it returned or raised
CallRecord(rt, out) ==
    [called |-> TRUE, df |-> df, report_number |-> report_number, report_type |-> rt,
     table |-> out.table, error |-> out.error]

\* remember: whether this call is the one kept in earlier_call
TransformToMetadata(rt, remember) ==
    LET out == transformed[df][rt][report_number][dateutil_lenient]
    IN  /\ report_type' = rt
        /\ metadata_df' = out.table
        /\ error' = out.error
        /\ earlier_call' = IF remember THEN CallRecord(rt, out) ELSE earlier_call
        /\ repeat_call' = (~remember /\ earlier_call.called)
        /\ export_arg' = NoTable
        /\ ws' = NoSheet
        /\ excel_data' = <<>>
        /\ UNCHANGED <<classify_vars, dateutil_lenient, df, transformer_vars>>

\* the frame with the columns at places i and i + 1 exchanged, as a caller's
\* metadata_df[reordered columns] makes it
SwapColumns(table, i) ==
    [table EXCEPT !.columns = [j \in 1..Len(table.columns) |->
                                  IF j = i THEN table.columns[i + 1]
                                  ELSE IF j = i + 1 THEN table.columns[i]
                                  ELSE table.columns[j]]]

Reordered(table) == {SwapColumns(table, i) : i \in 1..(Len(table.columns) - 1)}

CreateExcelDownload(table) ==
    /\ report_type # ""
    /\ error = ""
    /\ export_arg' = table
    /\ ws' = Worksheet(table)
    /\ excel_data' = Saved(ws')
    /\ UNCHANGED <<classify_vars, dateutil_lenient, df, transformer_vars, build_vars>>

Next ==
    \/ \E arg \in ReportIds : NewTransformer(arg)
    \/ \E d \in Datasets : LoadDataset(d)
    \/ \E rt \in Range(report_types), remember \in BOOLEAN : TransformToMetadata(rt, remember)
    \/ CreateExcelDownload(metadata_df)

Spec == Init /\ [][Next]_vars

\* the exporter handed the frame as built or a reordered copy of it
NextExport ==
    \/ \E arg \in ReportIds : NewTransformer(arg)
    \/ \E d \in Datasets : LoadDataset(d)
    \/ \E rt \in Range(report_types) : TransformToMetadata(rt, FALSE)
    \/ \E table \in {metadata_df} \cup Reordered(metadata_df) : CreateExcelDownload(table)

SpecExport == Init /\ [][NextExport]_vars

(***************************************************************************)
(* Claims about detect_data_type, checked under SpecClassify.              *)
(***************************************************************************)
Classified == data_type # ""
Present == DropNa(values)
FlagRuleMatches ==
    /\ UniqueValues(Present) \subseteq bool_indicators
    /\ Cardinality(UniqueValues(Present)) <= 3
DateParseable == DateCount(Present, dateutil_lenient)
NumberParseable == NumericCount(Present)

\* C1: a sample with at least one non-missing value whose distinct trimmed,
\* lower-cased strings are at most 3 and all in the boolean vocabulary is
\* classified flag, whatever the date and number rules would say.
C1_FlagRuleWins ==
    (Classified /\ Len(Present) >= 1 /\ FlagRuleMatches) => data_type = FLAG

\* a single-valued sample of several "1": every value parses as a number, the
\* result is flag
C1_Witness ==
    /\ data_type = FLAG
    /\ Len(values) >= 2
    /\ \A i \in 1..Len(values) : IsNumeric(values[i])

\* C2: a sample the flag rule does not match, with n >= 1 non-missing values of
\* which d are date-parseable, is classified date exactly when d/n > 0.7.
C2_DateThreshold ==
    (Classified /\ Len(Present) >= 1 /\ ~FlagRuleMatches)
        => (data_type = DATE <=> 10 * DateParseable > 7 * Len(Present))

\* exactly 70% of the values are date-parseable and the result is not date
C2_Witness ==
    /\ Classified
    /\ Len(Present) >= 1
    /\ ~FlagRuleMatches
    /\ 10 * DateParseable = 7 * Len(Present)
    /\ data_type # DATE

\* C3: a sample neither the flag rule nor the date rule matches, with n >= 1
\* non-missing values of which k parse as numbers, is classified number exactly
\* when k/n > 0.8 and text otherwise.
C3_NumberThreshold ==
    (/\ Classified
     /\ Len(Present) >= 1
     /\ ~FlagRuleMatches
     /\ ~(10 * DateParseable > 7 * Len(Present)))
        => /\ data_type = NUMBER <=> 10 * NumberParseable > 8 * Len(Present)
           /\ data_type \in {NUMBER, TEXT}

\* exactly 80% of the values parse as numbers and the result is text
C3_Witness ==
    /\ Classified
    /\ Len(Present) >= 1
    /\ ~FlagRuleMatches
    /\ ~(10 * DateParseable > 7 * Len(Present))
    /\ 10 * NumberParseable = 8 * Len(Present)
    /\ data_type = TEXT

\* C4: a sample whose cells are all missing or empty is classified text.
C4_AllMissingOrEmptyIsText ==
    (Classified /\ \A i \in 1..Len(values) : IsNa(values[i]) \/ values[i].str = <<>>)
        => data_type = TEXT


(***************************************************************************)
(* Claims about transform_to_metadata, checked under Spec.                 *)
(***************************************************************************)
Built == report_type # ""
Returned == Built /\ error = ""
Field(r, k) == metadata_df.rows[r][k]

\* C5: for a dataset with columns c_1..c_n and a report id R, the call returns
\* exactly n records, record i holding index i, name c_i, the type the
\* classifier gives c_i's values, and the code "R_i".
C5_RecordPerColumn ==
    Built =>
        /\ error = ""
        /\ Len(metadata_df.rows) = Len(df)
        /\ \A i \in 1..Len(df) :
              /\ Field(i, "Noreportfield_info") = I(i)
              /\ Field(i, "name") = S(df[i].name)
              /\ Field(i, "base_type_report_field")
                    = S(detect_data_type(df[i].cells, dateutil_lenient))
              /\ Field(i, "ReportCode_info") = S(report_id \o "_" \o PyStr(i))

\* C6: on a dataset with zero columns the call raises nothing and returns an
\* empty table.
C6_ZeroColumnsBuild ==
    (Built /\ Len(df) = 0) => (error = "" /\ metadata_df.rows = <<>>)

\* C7: in every record the technical-algorithm, source-type and system-link
\* fields are set by the report type alone: "Ruchnoj vvod" and "Ruchnoe
\* zapolnenie" for the manual and semi-automatic types, "" and "Baza dannyh"
\* for the automatic type and ILA, and "ILA One" as the system link exactly for
\* ILA, "" for the others.
C7_DefaultsByReportType ==
    Returned =>
        \A r \in 1..Len(metadata_df.rows) :
            /\ report_type \in {MANUAL, SEMI_AUTOMATIC}
                  => /\ Field(r, "TechAlgorythm") = S("Ruchnoj vvod")
                     /\ Field(r, "base_type_info") = S("Ruchnoe zapolnenie")
            /\ report_type \in {AUTOMATIC, ILA}
                  => /\ Field(r, "TechAlgorythm") = S("")
                     /\ Field(r, "base_type_info") = S("Baza dannyh")
            /\ Field(r, "related_it_system_info") = S("ILA One") <=> report_type = ILA
            /\ report_type # ILA => Field(r, "related_it_system_info") = S("")

\* an automatic report of two columns of different types: both records carry
\* the defaults of the automatic type and no system link
C7_Witness ==
    /\ Returned
    /\ report_type = AUTOMATIC
    /\ Len(metadata_df.rows) = 2
    /\ Field(1, "base_type_report_field") # Field(2, "base_type_report_field")
    /\ \A r \in 1..2 : /\ Field(r, "TechAlgorythm") = S("")
                       /\ Field(r, "base_type_info") = S("Baza dannyh")
                       /\ Field(r, "related_it_system_info") = S("")

\* C10: a call with the dataset, report number and report type of an earlier
\* call returns what the earlier call returned, whatever was called between.
C10_BuildIdempotent ==
    (/\ Built
     /\ earlier_call.called
     /\ earlier_call.df = df
     /\ earlier_call.report_number = report_number
     /\ earlier_call.report_type = report_type)
        => (earlier_call.table = metadata_df /\ earlier_call.error = error)

\* a later call repeats the inputs of the remembered one and returns a table of
\* two or more records
C10_Witness ==
    /\ Returned
    /\ repeat_call
    /\ earlier_call.df = df
    /\ earlier_call.report_number = report_number
    /\ earlier_call.report_type = report_type
    /\ Len(metadata_df.rows) >= 2
    /\ earlier_call.table = metadata_df

(***************************************************************************)
(* Claims about create_excel_download, checked under SpecExport.           *)
(***************************************************************************)
Exported == export_arg # NoTable
DataCell(r, j) == CellValue(ws.cells, r + 2, j)
\* what a reader of the saved workbook finds in data row r, column j
ParsedCell(r, j) == CellValue(excel_data, r + 2, j)

\* C8: when the frame handed to the exporter does not have its fields in the
\* order of the technical headers, every value is still written under the
\* header of its own field (the exporter has no failure to fall back on).
C8_ReorderedFrameKeptApart ==
    (Exported /\ export_arg.columns # technical_headers)
        => \A r \in 1..Len(export_arg.rows), j \in 1..Len(technical_headers) :
              DataCell(r, j) = export_arg.rows[r][technical_headers[j]]

\* C9 as stated: parsing the workbook saved for a table the builder returned
\* gives, in data row k and column j, exactly the value of field j of record k.
C9_RoundTripExact ==
    (Exported /\ export_arg = metadata_df)
        => /\ Len(excel_data) = Len(metadata_df.rows) + 2
           /\ \A j \in 1..Len(technical_headers) :
                 CellValue(excel_data, 1, j) = S(technical_headers[j])
           /\ \A k \in 1..Len(metadata_df.rows), j \in 1..Len(technical_headers) :
                 ParsedCell(k, j) = Field(k, technical_headers[j])

\* C9 as amended: the same, except that a field holding the empty string is
\* found as an empty cell (None).
C9_RoundTripUpToBlank ==
    (Exported /\ export_arg = metadata_df)
        => /\ Len(excel_data) = Len(metadata_df.rows) + 2
           /\ \A j \in 1..Len(technical_headers) :
                 CellValue(excel_data, 1, j) = S(technical_headers[j])
           /\ \A k \in 1..Len(metadata_df.rows), j \in 1..Len(technical_headers) :
                 ParsedCell(k, j) = IF Field(k, technical_headers[j]) = S("")
                                    THEN None
                                    ELSE Field(k, technical_headers[j])

\* a built table of two records exported as built: the second data row holds
\* the record's code, index and name, and an empty cell for its description
C9_Witness ==
    /\ Exported
    /\ export_arg = metadata_df
    /\ Len(metadata_df.rows) = 2
    /\ ParsedCell(2, 1) = S("R7_2")
    /\ ParsedCell(2, 2) = I(2)
    /\ ParsedCell(2, 3) = S("Name")
    /\ Field(2, "description") = S("")
    /\ ParsedCell(2, 4) = None


====
